---- MODULE Spec2Model ----
(***************************************************************************)
(* BarotropicModel (src/barotropic/model.py): the state and the time       *)
(* integration of a spectral non-divergent barotropic vorticity model.     *)
(*                                                                         *)
(* Field values (numpy float64 / complex128) are elements of the prime     *)
(* field GF(P): addition, multiplication and division are exact there, so  *)
(* the scheme's arithmetic is followed step by step on a finite state      *)
(* space.  Quantities that the code compares or rounds (the clock, the     *)
(* step counters, the damping coefficients) are integers or exact          *)
(* fractions <<numerator, denominator>>.                                   *)
(*                                                                         *)
(* The transforms engine (pyspharm_transforms.TransformsEngine) is not     *)
(* part of model.py; it is modelled from its interface as a linear, lossy  *)
(* transform pair between a grid of nlat*nlon points and (T+1)(T+2)/2      *)
(* spectral coefficients.                                                  *)
(***************************************************************************)
EXTENDS Integers, Sequences, FiniteSets, TLC

----------------------------------------------------------------------------
(* Bounds of the model *)

MaxTruncation == 3
MaxOrder == 2
MaxCoefficient == 1
MaxDt == 2
MaxTime == 8
MaxRunTime == 4
MaxInterval == 2
BaseTruncation == 1

(* The modulus of the field the float values live in (a prime) *)
P == 31

----------------------------------------------------------------------------
(* Exact fractions <<num, den>>, den > 0 *)

RECURSIVE Gcd(_, _)
Gcd(a, b) == IF b = 0 THEN a ELSE Gcd(b, a % b)

Reduce(q) == LET g == Gcd(q[1], q[2]) IN <<q[1] \div g, q[2] \div g>>

RMul(a, b) == Reduce(<<a[1] * b[1], a[2] * b[2]>>)

RDiv(a, b) == Reduce(<<a[1] * b[2], a[2] * b[1]>>)

RECURSIVE RPow(_, _)
RPow(a, k) == IF k = 0 THEN <<1, 1>> ELSE RMul(a, RPow(a, k - 1))

REq(a, b) == a[1] * b[2] = b[1] * a[2]

RLeq(a, b) == a[1] * b[2] <= b[1] * a[2]

(* ceil(a / b) for a >= 0, b > 0, as math.ceil of a true division *)
Ceil(a, b) == (a + b - 1) \div b

----------------------------------------------------------------------------
(* Arithmetic of field values *)

(* an array is a value, computed once when the statement that builds it runs *)
Array(a) == IF a = <<>> THEN a ELSE a

Inv(x) == CHOOSE y \in 0..(P - 1) : x = 0 \/ (x * y) % P = 1

ToField(q) == ((q[1] % P) * Inv(q[2] % P)) % P

VAdd(a, b) == Array([i \in DOMAIN a |-> (a[i] + b[i]) % P])

VSub(a, b) == Array([i \in DOMAIN a |-> (a[i] - b[i]) % P])

VMul(a, b) == Array([i \in DOMAIN a |-> (a[i] * b[i]) % P])

VScale(c, a) == Array([i \in DOMAIN a |-> (c * a[i]) % P])

VNeg(a) == Array([i \in DOMAIN a |-> (0 - a[i]) % P])

Zeros(len) == Array([i \in 1..len |-> 0])

----------------------------------------------------------------------------
(* The transforms engine, from its interface *)

(* number of spectral coefficients of a triangular truncation *)
NSpec(T) == ((T + 1) * (T + 2)) \div 2

(* index (1-based) of the first coefficient of zonal wavenumber m *)
Offset(T, m) == m * (T + 1) - ((m * (m - 1)) \div 2)

(* zonal wavenumber of spectral index i: m = 0 with n = 0..T, then m = 1 ... *)
ZonalOf(T, i) == CHOOSE m \in 0..T : Offset(T, m) < i /\ i <= Offset(T, m + 1)

(* wavenumbers(): <<m, n>> per spectral index, 0 <= m <= n <= T *)
wavenumbers(T) ==
    [i \in 1..NSpec(T) |->
        LET m == ZonalOf(T, i) IN <<m, m + (i - 1 - Offset(T, m))>>]

radius == 2

(* grid_to_spec: the truncated forward transform keeps NSpec components *)
grid_to_spec(T, g) == Array([i \in 1..NSpec(T) |-> g[i]])

(* spec_to_grid: the inverse transform onto a grid of len points *)
spec_to_grid(len, s) == Array([k \in 1..len |-> IF k <= Len(s) THEN s[k] ELSE 0])

(* cyclic shift of a spectral vector, standing for the derivative operators *)
Shift(s) == Array([i \in DOMAIN s |-> s[(i % Len(s)) + 1]])

(* uv_grid_from_vrtdiv_spec(vrt, div) -> <<u, v>> *)
uv_grid_from_vrtdiv_spec(len, vrt, div) ==
    << spec_to_grid(len, VSub(div, Shift(vrt))),
       spec_to_grid(len, VAdd(Shift(div), vrt)) >>

(* vrtdiv_spec_from_uv_grid(u, v) -> <<vrt, div>> *)
vrtdiv_spec_from_uv_grid(T, u, v) ==
    LET us == grid_to_spec(T, u)
        vs == grid_to_spec(T, v)
    IN  << VSub(vs, Shift(us)), VAdd(us, Shift(vs)) >>

(* grid_latlon(): latitude (as a signed row number) of each row *)
grid_lats(rows) == [j \in 1..rows |-> 2 * j - (rows + 1)]

----------------------------------------------------------------------------
VARIABLES
    nlat, nlon,            \* grid size
    truncation,            \* the engine's truncation
    robert_coefficient,    \* fraction
    damping_coefficient,   \* constructor argument (fraction)
    damping_order,         \* constructor argument
    damping,               \* fraction per spectral index
    f,                     \* Coriolis parameter per grid point
    start_time, t, dt, first_step,
    u_grid, v_grid, vrt_grid, vrt_spec, vrt_spec_prev,
    gen,                   \* the frame of the run_with_snapshots generator
    yielded,               \* the values the generator has yielded
    last                   \* the calls so far: the last one's name, the last
                           \* vorticity passed in, the local dt and branch of
                           \* the last step_forward, the number of step_forwards

config == <<nlat, nlon, truncation, robert_coefficient, damping_coefficient,
            damping_order, damping, f, start_time, dt>>

fields == <<u_grid, v_grid, vrt_grid, vrt_spec, vrt_spec_prev>>

vars == <<nlat, nlon, truncation, robert_coefficient, damping_coefficient,
          damping_order, damping, f, start_time, t, dt, first_step,
          u_grid, v_grid, vrt_grid, vrt_spec, vrt_spec_prev, gen, yielded, last>>

NGrid == nlat * nlon

----------------------------------------------------------------------------
(* Inputs *)

(* grid vorticity fields a caller passes: zero, uniform, and a ramp that the
   truncation does not represent *)
Vorticities(len) ==
    { [k \in 1..len |-> (a * k + b) % P] : a \in 0..1, b \in 0..1 } \
        { [k \in 1..len |-> (k + 1) % P] }

(* the grid of a model of truncation T: nlon = 2 * nlat, more points than
   spectral coefficients *)
GridRows(T) == CHOOSE r \in 1..(T + 1) :
                  /\ 2 * r * r > NSpec(T)
                  /\ \A q \in 1..(r - 1) : 2 * q * q <= NSpec(T)

(* snapshot_interval: <<>> is None, <<x>> is the value x *)
SnapshotIntervals == { <<>> } \cup { <<x>> : x \in 0..MaxInterval }

SnapshotStarts == { 0, 2, 2 * MaxTime }

----------------------------------------------------------------------------
(* __init__: the damping vector and the Coriolis field *)

(* el = (m + n) * (m + n + 1) / float(radius) ** 2, per spectral index *)
Eigenvalues(T) ==
    LET mn == wavenumbers(T)
    IN  [i \in 1..NSpec(T) |->
            << (mn[i][1] + mn[i][2]) * (mn[i][1] + mn[i][2] + 1),
               radius * radius >>]

(* damping_coefficient * (el / el[truncation]) ** damping_order;
   el[truncation] is the element at 0-based index truncation *)
DampingVector(T, coefficient, order) ==
    LET el == Eigenvalues(T)
    IN  [i \in 1..NSpec(T) |->
            RMul(coefficient, RPow(RDiv(el[i], el[T + 1]), order))]

(* f = 2 * 7.29e-5 * sin(deg2rad(lats))[:, newaxis], one value per row *)
Coriolis(rows, cols) ==
    LET lats == grid_lats(rows)
    IN  Array([k \in 1..(rows * cols) |->
                  (2 * lats[((k - 1) \div cols) + 1]) % P])

----------------------------------------------------------------------------
(* set_state *)

SetStateFrom(T, len, spec) ==
    [ vrt_spec      |-> spec,
      vrt_grid      |-> spec_to_grid(len, spec),
      u_grid        |-> uv_grid_from_vrtdiv_spec(len, spec, Zeros(NSpec(T)))[1],
      v_grid        |-> uv_grid_from_vrtdiv_spec(len, spec, Zeros(NSpec(T)))[2],
      vrt_spec_prev |-> spec ]

(* variant: the caller's field is stored as the grid vorticity *)
SetStateFields_Raw(T, len, vrt) ==
    [SetStateFrom(T, len, grid_to_spec(T, vrt)) EXCEPT !.vrt_grid = vrt]

SetStateFields(T, len, vrt) == SetStateFrom(T, len, grid_to_spec(T, vrt))

(* variant: set_state returns the model to its first step *)
FirstStepAfterSetState_Reset(flag) == TRUE

(* set_state leaves the first-step flag as it is *)
FirstStepAfterSetState(flag) == flag

----------------------------------------------------------------------------
(* step_forward *)

(* the local dt: self.dt on the first step, 2 * self.dt afterwards *)
EffectiveDt(flag, step) == IF flag THEN step ELSE 2 * step

(* the branch of "if self.first_step" *)
Scheme(flag) == IF flag THEN "forward" ELSE "leapfrog"

(* variant: the meridional tendency misses its wind factor *)
Tendency_NoWind(T, cor, vrt, u, v) ==
    LET absvrt == VAdd(cor, vrt)
        dudt   == VMul(absvrt, v)
        dvdt   == VNeg(absvrt)
    IN  vrtdiv_spec_from_uv_grid(T, dudt, dvdt)[1]

(* dzetadt, _ = vrtdiv_spec_from_uv_grid((f + vrt) * v, -(f + vrt) * u) *)
Tendency(T, cor, vrt, u, v) ==
    LET absvrt == VAdd(cor, vrt)
        dudt   == VMul(absvrt, v)
        dvdt   == VNeg(VMul(absvrt, u))
    IN  vrtdiv_spec_from_uv_grid(T, dudt, dvdt)[1]

(* variant: the implicit factor uses the leapfrog step 2*dt *)
DampedTendency_LeapfrogDt(damp, step, dzetadt, prev) ==
    Array([i \in DOMAIN dzetadt |->
        LET d      == ToField(damp[i])
            coeffs == Inv((1 + d * 2 * step) % P)
        IN  (coeffs * ((dzetadt[i] - d * prev[i]) % P)) % P])

(* coeffs * (dzetadt - damping * vrt_spec_prev), coeffs = 1/(1 + damping*dt) *)
DampedTendency(damp, step, dzetadt, prev) ==
    Array([i \in DOMAIN dzetadt |->
        LET d      == ToField(damp[i])
            coeffs == Inv((1 + d * step) % P)
        IN  (coeffs * ((dzetadt[i] - d * prev[i]) % P)) % P])

(* variant: the old current level is kept unfiltered *)
ForwardStep_Unfiltered(r, dtl, dzetadt, spec, prev) ==
    << VAdd(spec, VScale(dtl, dzetadt)), spec >>

(* the forward-difference branch: <<new_vrt_spec, filtered vrt_spec>> *)
ForwardStep(r, dtl, dzetadt, spec, prev) ==
    LET new == VAdd(spec, VScale(dtl, dzetadt))
    IN  << new, VAdd(spec, VScale(r, VSub(new, spec))) >>

(* variant: the second addition of the filter is missing *)
LeapfrogStep_NoForwardHalf(r, dtl, dzetadt, spec, prev) ==
    LET spec1 == VAdd(spec, VScale(r, VSub(prev, VScale(2, spec))))
        new   == VAdd(prev, VScale(dtl, dzetadt))
    IN  << new, spec1 >>

(* the leapfrog branch: <<new_vrt_spec, filtered vrt_spec>> *)
LeapfrogStep(r, dtl, dzetadt, spec, prev) ==
    LET spec1 == VAdd(spec, VScale(r, VSub(prev, VScale(2, spec))))
        new   == VAdd(prev, VScale(dtl, dzetadt))
    IN  << new, VAdd(spec1, VScale(r, new)) >>

(* variant: the grid fields are derived from the filtered current level *)
StepFields_Stale(T, len, new, filtered) ==
    [ vrt_spec_prev |-> filtered,
      vrt_spec      |-> new,
      vrt_grid      |-> spec_to_grid(len, filtered),
      u_grid        |-> uv_grid_from_vrtdiv_spec(len, filtered, Zeros(NSpec(T)))[1],
      v_grid        |-> uv_grid_from_vrtdiv_spec(len, filtered, Zeros(NSpec(T)))[2] ]

(* the fields after the step *)
StepFields(T, len, new, filtered) ==
    [ vrt_spec_prev |-> filtered,
      vrt_spec      |-> new,
      vrt_grid      |-> spec_to_grid(len, new),
      u_grid        |-> uv_grid_from_vrtdiv_spec(len, new, Zeros(NSpec(T)))[1],
      v_grid        |-> uv_grid_from_vrtdiv_spec(len, new, Zeros(NSpec(T)))[2] ]

(* the whole of step_forward on the fields: the fields after the step *)
StepForwardFields(T, len, cor, damp, r, step, flag, vrt, u, v, spec, prev) ==
    LET dtl     == EffectiveDt(flag, step)
        dzetadt == DampedTendency(damp, step, Tendency(T, cor, vrt, u, v), prev)
        res     == IF Scheme(flag) = "forward"
                   THEN ForwardStep(r, dtl, dzetadt, spec, prev)
                   ELSE LeapfrogStep(r, dtl, dzetadt, spec, prev)
    IN  StepFields(T, len, res[1], res[2])

(* variant: the clock advances by the local dt *)
NextTime_Local(now, step, dtl) == now + dtl

(* self.t += self.dt *)
NextTime(now, step, dtl) == now + step

----------------------------------------------------------------------------
(* run_with_snapshots: the generator's locals *)

(* variant: an omitted or zero interval defaults to the leapfrog step *)
NormalInterval_LeapfrogDefault(interval, step) ==
    LET given == IF interval = <<>> THEN 2 * step
                 ELSE IF interval[1] = 0 THEN 2 * step ELSE interval[1]
    IN  IF given < step THEN step ELSE given

(* snapshot_interval = snapshot_interval or self.dt, floored at self.dt;
   <<>> is None, <<x>> is the value x *)
NormalInterval(interval, step) ==
    LET given == IF interval = <<>> THEN step
                 ELSE IF interval[1] = 0 THEN step ELSE interval[1]
    IN  IF given < step THEN step ELSE given

(* target_steps = int(math.ceil((self.t + run_time) / self.dt)) *)
TargetSteps(now, run_time, step) == Ceil(now + run_time, step)

(* step_interval = int(math.ceil(snapshot_interval / self.dt)) *)
StepInterval(interval, step) == Ceil(interval, step)

(* while n <= target_steps *)
LoopCondition(n, target) == n <= target

(* variant: a snapshot is also taken at snapshot_start itself *)
YieldCondition_AtStart(now, start, n, every) == now >= start /\ n % every = 0

(* if self.t > snapshot_start and n % step_interval == 0 *)
YieldCondition(now, start, n, every) == now > start /\ n % every = 0

NoGenerator ==
    [ pc |-> "none", run_time |-> 0, snapshot_start |-> 0,
      snapshot_interval |-> <<>>, target_steps |-> 0, step_interval |-> 0,
      start_time |-> 0, n |-> 0,
      given_interval |-> <<>> ]    \* the snapshot_interval argument as passed

----------------------------------------------------------------------------
(* Construction *)

(* the coefficients the field arithmetic divides by are invertible *)
Representable(damp, step, r) ==
    /\ r[2] % P # 0
    /\ \A i \in DOMAIN damp :
          /\ damp[i][2] % P # 0
          /\ (1 + ToField(damp[i]) * step) % P # 0

InitialFields(st) ==
    /\ u_grid = st.u_grid
    /\ v_grid = st.v_grid
    /\ vrt_grid = st.vrt_grid
    /\ vrt_spec = st.vrt_spec
    /\ vrt_spec_prev = st.vrt_spec_prev

(* __init__(vrt, truncation, dt, start_time, robert_coefficient,
            damping_coefficient, damping_order) *)
Construct(vrt, T, step, start, r, c, order) ==
    LET rows == GridRows(T)
    IN  /\ Representable(DampingVector(T, c, order), step, r)
        /\ InitialFields(SetStateFields(T, rows * 2 * rows, vrt))
        /\ nlat = rows
        /\ nlon = 2 * rows
        /\ truncation = T
        /\ robert_coefficient = r
        /\ damping_coefficient = c
        /\ damping_order = order
        /\ damping = DampingVector(T, c, order)
        /\ f = Coriolis(rows, 2 * rows)
        /\ start_time = start
        /\ t = 0
        /\ dt = step
        /\ first_step = TRUE
        /\ gen = NoGenerator
        /\ yielded = <<>>
        /\ last = [op |-> "__init__", vrt |-> vrt, dt |-> 0,
                    scheme |-> "none", steps |-> 0]

(* the defaults of the optional arguments *)
DefaultRobert == <<1, 25>>
DefaultDamping == <<1, 10000>>
DefaultOrder == 4

(* a model built with the default optional arguments *)
Init ==
    \E T \in 1..BaseTruncation, step \in 1..MaxDt :
      \E vrt \in Vorticities(GridRows(T) * 2 * GridRows(T)) :
        Construct(vrt, T, step, 0, DefaultRobert, DefaultDamping, DefaultOrder)

(* a model built with explicit damping arguments *)
InitDamping ==
    \E T \in 1..MaxTruncation, c \in 0..MaxCoefficient, order \in 1..MaxOrder :
      \E vrt \in Vorticities(GridRows(T) * 2 * GridRows(T)) :
        Construct(vrt, T, 1, 0, DefaultRobert, <<c, 1>>, order)

----------------------------------------------------------------------------
(* Operations *)

(* the in-place assignments to the five field arrays *)
StoreFields(st) ==
    /\ vrt_spec_prev' = st.vrt_spec_prev
    /\ vrt_spec' = st.vrt_spec
    /\ vrt_grid' = st.vrt_grid
    /\ u_grid' = st.u_grid
    /\ v_grid' = st.v_grid

SetState(vrt) ==
    /\ gen.pc \in {"none", "created", "suspended"}
    /\ StoreFields(SetStateFields(truncation, NGrid, vrt))
    /\ first_step' = FirstStepAfterSetState(first_step)
    /\ last' = [last EXCEPT !.op = "set_state", !.vrt = vrt]
    /\ UNCHANGED <<config, t, gen, yielded>>

(* variant: the local dt is stored back as the model's time step *)
DoStepForward_StoresDt ==
    /\ t + dt <= MaxTime
    /\ StoreFields(StepForwardFields(truncation, NGrid, f, damping,
                                     ToField(robert_coefficient), dt,
                                     first_step, vrt_grid, u_grid, v_grid,
                                     vrt_spec, vrt_spec_prev))
    /\ first_step' = FALSE
    /\ t' = NextTime(t, dt, EffectiveDt(first_step, dt))
    /\ last' = [op |-> "step_forward", vrt |-> last.vrt,
                dt |-> EffectiveDt(first_step, dt),
                scheme |-> Scheme(first_step), steps |-> last.steps + 1]
    /\ dt' = EffectiveDt(first_step, dt)
    /\ UNCHANGED <<nlat, nlon, truncation, robert_coefficient,
                   damping_coefficient, damping_order, damping, f, start_time>>

(* the body of step_forward, on the model's own state *)
DoStepForward ==
    /\ t + dt <= MaxTime
    /\ StoreFields(StepForwardFields(truncation, NGrid, f, damping,
                                     ToField(robert_coefficient), dt,
                                     first_step, vrt_grid, u_grid, v_grid,
                                     vrt_spec, vrt_spec_prev))
    /\ first_step' = FALSE
    /\ t' = NextTime(t, dt, EffectiveDt(first_step, dt))
    /\ last' = [op |-> "step_forward", vrt |-> last.vrt,
                dt |-> EffectiveDt(first_step, dt),
                scheme |-> Scheme(first_step), steps |-> last.steps + 1]
    /\ UNCHANGED config

(* a direct call of step_forward *)
StepForward ==
    /\ gen.pc \in {"none", "created"}
    /\ DoStepForward
    /\ UNCHANGED <<gen, yielded>>

(* calling run_with_snapshots creates the generator; its body has not run *)
RunWithSnapshots(run_time, start, interval) ==
    /\ gen.pc = "none"
    /\ gen' = [NoGenerator EXCEPT !.pc = "created", !.run_time = run_time,
                                  !.snapshot_start = start,
                                  !.snapshot_interval = interval,
                                  !.given_interval = interval]
    /\ yielded' = <<>>
    /\ UNCHANGED <<config, fields, t, first_step, last>>

(* the caller drops the generator: before its first value, between two
   values, or once it is exhausted *)
Discard ==
    /\ gen.pc \in {"created", "suspended", "done"}
    /\ gen' = NoGenerator
    /\ yielded' = <<>>
    /\ UNCHANGED <<config, fields, t, first_step, last>>

(* next(): the first one runs the lines before the loop *)
GenNext ==
    /\ \/ /\ gen.pc = "created"
          /\ LET interval == NormalInterval(gen.snapshot_interval, dt)
             IN  gen' = [gen EXCEPT
                           !.pc = "running",
                           !.snapshot_interval = <<interval>>,
                           !.target_steps = TargetSteps(t, gen.run_time, dt),
                           !.step_interval = StepInterval(interval, dt),
                           !.start_time = t,
                           !.n = 0]
       \/ /\ gen.pc = "suspended"
          /\ gen' = [gen EXCEPT !.pc = "running"]
    /\ UNCHANGED <<config, fields, t, first_step, yielded, last>>

(* variant: the value yielded is computed from the loop counter *)
GenLoop_CountedTime ==
    /\ gen.pc = "running"
    /\ LoopCondition(gen.n, gen.target_steps)
    /\ DoStepForward
    /\ LET n == gen.n + 1
       IN  IF YieldCondition(t', gen.snapshot_start, n, gen.step_interval)
           THEN /\ gen' = [gen EXCEPT !.n = n, !.pc = "suspended"]
                /\ yielded' = Append(yielded, n * dt)
           ELSE /\ gen' = [gen EXCEPT !.n = n]
                /\ UNCHANGED yielded

(* variant: steps taken before snapshot_start are not counted *)
GenLoop_CountsAfterStart ==
    /\ gen.pc = "running"
    /\ LoopCondition(gen.n, gen.target_steps)
    /\ DoStepForward
    /\ LET n == IF t' > gen.snapshot_start THEN gen.n + 1 ELSE gen.n
       IN  IF YieldCondition(t', gen.snapshot_start, n, gen.step_interval)
           THEN /\ gen' = [gen EXCEPT !.n = n, !.pc = "suspended"]
                /\ yielded' = Append(yielded, t')
           ELSE /\ gen' = [gen EXCEPT !.n = n]
                /\ UNCHANGED yielded

(* one pass of the while loop, up to the yield or back to the loop test *)
GenLoop ==
    /\ gen.pc = "running"
    /\ LoopCondition(gen.n, gen.target_steps)
    /\ DoStepForward
    /\ LET n == gen.n + 1
       IN  IF YieldCondition(t', gen.snapshot_start, n, gen.step_interval)
           THEN /\ gen' = [gen EXCEPT !.n = n, !.pc = "suspended"]
                /\ yielded' = Append(yielded, t')
           ELSE /\ gen' = [gen EXCEPT !.n = n]
                /\ UNCHANGED yielded

(* the loop test fails: the generator is exhausted *)
GenExit ==
    /\ gen.pc = "running"
    /\ ~LoopCondition(gen.n, gen.target_steps)
    /\ gen' = [gen EXCEPT !.pc = "done"]
    /\ UNCHANGED <<config, fields, t, first_step, yielded, last>>

(* the calls made on the model itself *)
NextDirect ==
    \/ \E vrt \in Vorticities(NGrid) : SetState(vrt)
    \/ StepForward

Next ==
    \/ NextDirect
    \/ \E run_time \in 0..MaxRunTime, start \in SnapshotStarts,
          interval \in SnapshotIntervals :
            RunWithSnapshots(run_time, start, interval)
    \/ GenNext
    \/ GenLoop
    \/ GenExit
    \/ Discard

Spec == Init /\ [][Next]_vars

(* models built with explicit damping arguments and stepped directly *)
SpecDamping == InitDamping /\ [][NextDirect]_vars

----------------------------------------------------------------------------
(* Properties *)

(* the run the generator made started at elapsed time 0 with
   snapshot_start = 0, and run_time and the snapshot interval passed are
   whole multiples of dt, run_time a multiple of the interval *)
AlignedRun ==
    /\ gen.start_time = 0
    /\ gen.snapshot_start = 0
    /\ gen.given_interval # <<>>
    /\ gen.given_interval[1] > 0
    /\ gen.given_interval[1] % dt = 0
    /\ gen.run_time % gen.given_interval[1] = 0

(* C1: a fully consumed aligned run started at elapsed time 0 yields exactly
   I, 2I, ..., run_time, in this order, and nothing else *)
C1_SnapshotTimes ==
    (gen.pc = "done" /\ AlignedRun) =>
        yielded = [k \in 1..(gen.run_time \div gen.given_interval[1]) |->
                      k * gen.given_interval[1]]

(* C2: a fully consumed run has made at most ceil((elapsed + run_time)/dt)
   step_forward calls, elapsed being the elapsed time when the run began *)
C2_StepBound ==
    gen.pc = "done" => gen.n <= Ceil(gen.start_time + gen.run_time, dt)

(* C3: when the generator is exhausted the elapsed time has grown by exactly
   ceil(run_time/dt)*dt over its value when the run began *)
C3_RunsForRunTime ==
    gen.pc = "done" => t - gen.start_time = Ceil(gen.run_time, dt) * dt

(* C4: only the first step_forward since construction takes the
   forward-difference branch with the local dt equal to dt; every later one
   takes the leapfrog branch with 2*dt; the first-step flag is true exactly
   until the first step_forward, whatever set_state calls were made *)
C4_FirstStepOnce ==
    /\ first_step <=> (last.steps = 0)
    /\ last.steps = 0 => last.scheme = "none"
    /\ last.steps = 1 => (last.scheme = "forward" /\ last.dt = dt)
    /\ last.steps >= 2 => (last.scheme = "leapfrog" /\ last.dt = 2 * dt)

(* a set_state made after steps has left the flag false *)
C4_Witness ==
    last.op = "set_state" /\ last.steps >= 2 /\ ~first_step

(* C5: the elapsed time is the number of step_forward calls times dt *)
C5_Clock == t = last.steps * dt

(* the clock after a forward step, leapfrog steps made by a generator and a
   set_state *)
C5_Witness ==
    gen.pc = "suspended" /\ last.op = "set_state" /\ last.steps >= 3
        /\ t = last.steps * dt

(* C6: right after construction or set_state with the field last.vrt, the
   grid vorticity is the round trip of that field, the spectral vorticity
   its transform, and the previous level equals the current level *)
C6_InitialConsistency ==
    last.op \in {"__init__", "set_state"} =>
        /\ vrt_spec = grid_to_spec(truncation, last.vrt)
        /\ vrt_grid = spec_to_grid(NGrid, grid_to_spec(truncation, last.vrt))
        /\ vrt_spec_prev = vrt_spec

(* a set_state in the middle of a run, with a field the truncation changes *)
C6_Witness ==
    /\ last.op = "set_state"
    /\ last.steps >= 2
    /\ gen.pc = "suspended"
    /\ vrt_grid # last.vrt
    /\ vrt_spec # Zeros(NSpec(truncation))

(* C7: after every completed call the grid vorticity and the winds are the
   ones derived from the current spectral vorticity with zero divergence *)
C7_GridConsistency ==
    /\ vrt_grid = spec_to_grid(NGrid, vrt_spec)
    /\ <<u_grid, v_grid>> =
          uv_grid_from_vrtdiv_spec(NGrid, vrt_spec, Zeros(NSpec(truncation)))

(* at a snapshot, after leapfrog steps that moved the vorticity *)
C7_Witness ==
    /\ gen.pc = "suspended"
    /\ last.op = "step_forward"
    /\ last.steps >= 2
    /\ vrt_spec # vrt_spec_prev
    /\ vrt_spec # Zeros(NSpec(truncation))

(* total wavenumber n of spectral index i *)
TotalOf(i) == wavenumbers(truncation)[i][2]

(* C8: the damping coefficient does not decrease with total wavenumber *)
C8_DampingMonotone ==
    \A i, j \in 1..NSpec(truncation) :
        TotalOf(i) < TotalOf(j) => RLeq(damping[i], damping[j])

(* C9: at every index of total wavenumber T the damping coefficient is the
   configured damping coefficient *)
C9_DampingNormalised ==
    \A i \in 1..NSpec(truncation) :
        TotalOf(i) = truncation => REq(damping[i], damping_coefficient)

AllZero ==
    /\ vrt_grid = Zeros(NGrid)
    /\ u_grid = Zeros(NGrid)
    /\ v_grid = Zeros(NGrid)
    /\ vrt_spec = Zeros(NSpec(truncation))
    /\ vrt_spec_prev = Zeros(NSpec(truncation))

(* C10: while the vorticity passed in is all zero, every field stays zero
   through any number of steps *)
C10_NoMotion == last.vrt = Zeros(NGrid) => AllZero

(* a zero model after its first step and leapfrog steps *)
C10_Witness ==
    /\ last.vrt = Zeros(NGrid)
    /\ last.op = "step_forward"
    /\ last.steps >= 3
    /\ AllZero

(* a transition that is one call of step_forward *)
Stepped == last'.steps = last.steps + 1

(* the snapshot interval in force: the one passed, dt when it is None, zero
   or smaller than dt *)
IntervalInForce ==
    IF gen.given_interval = <<>> THEN dt
    ELSE IF gen.given_interval[1] < dt THEN dt ELSE gen.given_interval[1]

(* C11: in a run, a step is followed by a snapshot exactly when the number of
   steps of this run is a multiple of ceil(snapshot_interval/dt) and the
   elapsed time after the step exceeds snapshot_start; the snapshot is that
   elapsed time *)
C11_SnapshotRule ==
    [][ (gen.pc = "running" /\ Stepped) =>
          LET due == /\ (gen.n + 1) % Ceil(IntervalInForce, dt) = 0
                     /\ t' > gen.snapshot_start
          IN  /\ gen'.n = gen.n + 1
              /\ (gen'.pc = "suspended") <=> due
              /\ yielded' = IF due THEN Append(yielded, t') ELSE yielded
      ]_vars

(* the first snapshot of a run with snapshot_start = 2 and an interval of two
   steps: the second step is not past snapshot_start, the fourth one is *)
C11_Witness ==
    /\ gen.pc = "suspended"
    /\ gen.snapshot_start = 2
    /\ gen.start_time = 0
    /\ dt = 1
    /\ gen.given_interval = <<2>>
    /\ gen.n = 4
    /\ yielded = <<4>>

(* C12: creating the generator makes no step; every value produced comes
   with a step_forward made since the previous value; whenever the generator
   is suspended the elapsed time is the value it produced last, and it stays
   so as long as the consumer does not resume it *)
C12_LazyRun ==
    [][ /\ (gen.pc = "none" /\ gen'.pc = "created") =>
              (t' = t /\ last' = last /\ fields' = fields)
        /\ Len(yielded') > Len(yielded) => Stepped
        /\ gen'.pc = "suspended" =>
              (yielded' # <<>> /\ t' = yielded'[Len(yielded')])
        /\ (gen.pc = "suspended" /\ gen'.pc # "running") => t' = t
      ]_vars

(* a generator started at a non-zero elapsed time, suspended after its second
   value, the consumer having called set_state rather than next *)
C12_Witness ==
    /\ gen.pc = "suspended"
    /\ gen.start_time > 0
    /\ Len(yielded) = 2
    /\ last.op = "set_state"
    /\ t = yielded[2]

(* the damped tendency D of a step taken from the current state *)
DampedNow ==
    DampedTendency(damping, dt,
                   Tendency(truncation, f, vrt_grid, u_grid, v_grid),
                   vrt_spec_prev)

(* C13: a leapfrog step leaves N = P + 2*dt*D as the current level and
   C + r*(P - 2*C + N) as the previous level, P and C being the previous and
   current levels before the step *)
C13_RobertAsselin ==
    [][ (Stepped /\ ~first_step) =>
          LET r == ToField(robert_coefficient)
              N == VAdd(vrt_spec_prev, VScale(2 * dt, DampedNow))
          IN  /\ vrt_spec' = N
              /\ vrt_spec_prev' =
                    VAdd(vrt_spec,
                         VScale(r, VAdd(VSub(vrt_spec_prev,
                                             VScale(2, vrt_spec)), N)))
      ]_vars

(* after leapfrog steps on a moving field: three distinct levels met *)
C13_Witness ==
    /\ last.op = "step_forward"
    /\ last.scheme = "leapfrog"
    /\ last.steps >= 3
    /\ vrt_spec # vrt_spec_prev
    /\ vrt_spec_prev # Zeros(NSpec(truncation))
    /\ ToField(robert_coefficient) # 0

(* C14: the first step leaves N = C + dt*D as the current level, the filtered
   old current level C + r*(N - C) as the previous level, and the first-step
   flag false *)
C14_ForwardFirstStep ==
    [][ (Stepped /\ first_step) =>
          LET r == ToField(robert_coefficient)
              N == VAdd(vrt_spec, VScale(dt, DampedNow))
          IN  /\ vrt_spec' = N
              /\ vrt_spec_prev' = VAdd(vrt_spec, VScale(r, VSub(N, vrt_spec)))
              /\ first_step' = FALSE
      ]_vars

(* after the first step on a moving field: the previous level is neither the
   new level nor the level before the step *)
C14_Witness ==
    /\ last.op = "step_forward"
    /\ last.scheme = "forward"
    /\ ~first_step
    /\ vrt_spec_prev # vrt_spec
    /\ vrt_spec_prev # grid_to_spec(truncation, last.vrt)

(* the tendency D a step has applied, read off the step itself: the new
   level minus the level it was added to, over the local dt *)
AppliedTendency ==
    VScale(Inv(EffectiveDt(first_step, dt) % P),
           VSub(vrt_spec', IF first_step THEN vrt_spec ELSE vrt_spec_prev))

(* C15: in every step, first or leapfrog, the tendency D applied satisfies
   (1 + damping*dt) * D = tendency - damping * vrt_spec_prev at every spectral
   index, with the previous level as it was when the step began and the
   configured dt *)
C15_ImplicitDamping ==
    [][ Stepped =>
          LET raw == Tendency(truncation, f, vrt_grid, u_grid, v_grid)
          IN  \A i \in 1..NSpec(truncation) :
                ((1 + ToField(damping[i]) * dt) * AppliedTendency[i]) % P =
                    (raw[i] - ToField(damping[i]) * vrt_spec_prev[i]) % P
      ]_vars

(* after leapfrog steps, at an index where the damping and the previous
   level are both non-zero *)
C15_Witness ==
    /\ last.op = "step_forward"
    /\ last.steps >= 2
    /\ \E i \in 1..NSpec(truncation) :
          ToField(damping[i]) # 0 /\ vrt_spec_prev[i] # 0 /\ vrt_spec[i] # 0

(* C16: no call changes the configuration or the constants derived at
   construction: grid size, truncation, Robert coefficient, damping vector,
   Coriolis field, start time, dt *)
C16_ConfigurationFrame == [][config' = config]_vars

(* the constants are those of the construction after a set_state, steps and
   a run with snapshots *)
C16_Witness ==
    /\ gen.pc = "suspended"
    /\ last.op = "set_state"
    /\ last.steps >= 2
    /\ damping = DampingVector(truncation, DefaultDamping, DefaultOrder)
    /\ f = Coriolis(nlat, nlon)
    /\ robert_coefficient = DefaultRobert
    /\ start_time = 0

(* the interval argument is None, zero, or a positive value below dt *)
IntervalBelowDt == gen.given_interval = <<>> \/ gen.given_interval[1] < dt

AfterSnapshotStart(time) == time > gen.snapshot_start

(* the elapsed times after each of the steps the run has taken so far *)
StepTimes == [k \in 1..gen.n |-> gen.start_time + k * dt]

(* C17: with snapshot_interval None, zero or below dt, the run uses an
   interval of one dt and yields after every step whose elapsed time
   exceeds snapshot_start *)
C17_IntervalFloor ==
    (gen.pc \in {"running", "suspended", "done"} /\ IntervalBelowDt) =>
        /\ gen.snapshot_interval = <<dt>>
        /\ gen.step_interval = 1
        /\ yielded = SelectSeq(StepTimes, AfterSnapshotStart)

(* an exhausted run with dt = 2 and an interval of 1: the step to t = 2 is
   not past snapshot_start, each later step is yielded *)
C17_Witness ==
    /\ gen.pc = "done"
    /\ dt = 2
    /\ gen.given_interval = <<1>>
    /\ gen.snapshot_start = 2
    /\ yielded = <<4, 6>>

(* the number of step_forward calls made since the run's body started: each
   one adds dt to the elapsed time *)
StepsOfRun == (t - gen.start_time) \div dt

(* C18: the number of steps of an exhausted run is a function of the elapsed
   time at its start, run_time and dt alone, whatever snapshot_start and
   snapshot_interval are *)
C18_StepCountIndependent ==
    gen.pc = "done" =>
        /\ StepsOfRun = Ceil(gen.start_time + gen.run_time, dt) + 1
        /\ gen.n = StepsOfRun

(* a run started after earlier steps, with snapshot_start beyond its end:
   nothing was yielded and every step was taken *)
C18_Witness ==
    /\ gen.pc = "done"
    /\ gen.snapshot_start = 2 * MaxTime
    /\ gen.given_interval = <<2>>
    /\ gen.start_time > 0
    /\ yielded = <<>>
    /\ StepsOfRun >= 3

====
